---- MODULE Spec2Model ----
(***************************************************************************)
(* Model of src/services/audio_router.py: the VMC lip-sync envelope        *)
(* follower (VMCLipSync), the callback-driven render session               *)
(* (AudioRouter.play_audio_with_vmc) and the playback queue of the HTTP    *)
(* API (start_api_server).                                                 *)
(*                                                                         *)
(* Numbers.  Python floats are modelled in fixed point:                    *)
(*   - levels, shape weights and rms values in units of 10^-5  (Unit);     *)
(*   - PCM sample values in units of 10^-3;                                *)
(*   - attack / release in percent;                                        *)
(*   - _vowel_phase in sixtieths of a cycle (vowel_speed / FPS = 7/60);    *)
(*   - the sine lobes in units of 10^-4, tabulated per sixtieth of a cycle.*)
(* Every product is rounded to the nearest unit (RoundDiv).                *)
(***************************************************************************)
EXTENDS Integers, Sequences, FiniteSets, TLC

VARIABLES
    \* ---- VMCLipSync (one instance, router.vmc) ----
    attack,            \* self.attack, percent
    release,           \* self.release, percent
    _envelope,         \* self._envelope
    _vowel_phase,      \* self._vowel_phase, sixtieths of a cycle
    _prev_shapes,      \* self._prev_shapes
    last_level,        \* value returned by the latest direct call of rms_to_blend_shapes
    last_frame,        \* frame sent by the latest direct call of rms_to_blend_shapes
    \* ---- asyncio.Queue and the request handlers ----
    playback_queue,    \* pending buffer ids, head first
    unfinished_tasks,  \* asyncio.Queue._unfinished_tasks
    body,              \* body[b]: the bytes posted for buffer b
    enqueued,          \* number of buffers put so far (ids are 1..enqueued)
    resp,              \* the latest HTTP response
    cleared,           \* ids removed by handle_clear so far
    \* ---- playback_worker ----
    worker,            \* "get" (awaiting the queue) or "play" (awaiting to_thread)
    worker_item,       \* the buffer the worker holds, 0 when none
    started,           \* ids in the order the worker started rendering them
    \* ---- play_audio_with_vmc, one activation per buffer ----
    session,           \* position of the thread running play_audio_with_vmc
    stream,            \* the sd.OutputStream of the session
    write_pos,         \* write_pos[0]
    current_rms,       \* current_rms[0]
    playback_done,     \* playback_done (threading.Event)
    outdata,           \* the chunk written by the latest callback
    played,            \* frame indices copied to the device, in order
    \* ---- vmc_worker thread of each session ----
    vmc_thread,        \* position of the thread
    ticks,             \* loop iterations made
    sent,              \* frames transmitted on behalf of the session, in order
    \* ---- environment ----
    faults,            \* number of injected faults so far
    \* ---- step-response measurement ----
    updates,           \* direct calls of rms_to_blend_shapes made so far
    step_phase,        \* "off", "attack", "decay" or "done"
    step_rms,          \* the sustained loudness of the step
    attack_ticks,      \* updates until the level is within 1% of the target
    decay_ticks,       \* updates until the level is back at 0
    \* ---- audio output started by request handlers ----
    play_direct,       \* "idle", or "playing": handle_play is inside sd.wait()
    test_tones,        \* threads running play_test_tone
    \* ---- the UDP socket of the OSC client ----
    wire,              \* the messages sent, in order
    sending,           \* per thread: the _send_blend_shapes call in progress
    \* ---- start_api_server binding the port ----
    bind,              \* "start", "sleep", "listening" or "raised"
    attempt,           \* the loop variable of the retry loop
    retry_delay,       \* seconds to wait after the next failure
    bind_attempts,     \* calls of site.start() made
    sleeps,            \* the waits made, in order
    clock,             \* seconds since the first attempt
    port_busy          \* seconds for which the port cannot be bound

vmcVars     == <<attack, release, _envelope, _vowel_phase, _prev_shapes, last_level, last_frame>>
queueVars   == <<playback_queue, unfinished_tasks, body, enqueued, resp, cleared>>
workerVars  == <<worker, worker_item, started>>
renderVars  == <<session, stream, write_pos, current_rms, playback_done, outdata, played>>
coordVars   == <<vmc_thread, ticks, sent>>
stepVars    == <<updates, step_phase, step_rms, attack_ticks, decay_ticks>>
directVars  == <<play_direct, test_tones>>
wireVars    == <<wire, sending>>
bindVars    == <<bind, attempt, retry_delay, bind_attempts, sleeps, clock, port_busy>>
vars        == <<vmcVars, queueVars, workerVars, renderVars, coordVars, faults, stepVars,
                 directVars, wireVars, bindVars>>

----------------------------------------------------------------------------
(* Bounds of the model *)

MaxBuffers == 3     \* buffers enqueued in one run
MaxFaultBuffers == 2 \* buffers enqueued in one run with faults
MaxTicks   == 1     \* loop iterations of one vmc_worker
MaxFaults  == 1     \* device, stream and transport faults in one run
MaxFrames  == 3     \* frames of a buffer in the callback specification
MaxChunk   == 2     \* frames requested by one callback in the callback specification
MaxUpdates == 4     \* updates in the envelope specification
MaxDirectBuffers == 2  \* buffers posted in the specification with /play and /test
MaxTones   == 1     \* test tones playing at once
MaxCellBuffers == 2 \* buffers posted in the specification of the amplitude cell
MaxBusy    == 16    \* seconds the port can stay busy, one more than the waits add up to

----------------------------------------------------------------------------
(* Fixed-point arithmetic *)

Unit == 10^5

Min(a, b) == IF a < b THEN a ELSE b
Max(a, b) == IF a > b THEN a ELSE b

\* a / b rounded to the nearest integer (b > 0)
RoundDiv(a, b) == (2 * a + b) \div (2 * b)

RECURSIVE SqrtSearch(_, _, _)
SqrtSearch(x, lo, hi) ==
    IF lo >= hi THEN lo
    ELSE LET mid == (lo + hi + 1) \div 2
         IN  IF mid * mid <= x THEN SqrtSearch(x, mid, hi)
                               ELSE SqrtSearch(x, lo, mid - 1)

\* floor of the square root, 0 <= x < 2^30
Isqrt(x) == SqrtSearch(x, 0, 32767)

RECURSIVE SumSq(_)
SumSq(s) == IF s = <<>> THEN 0 ELSE Head(s) * Head(s) + SumSq(Tail(s))

\* float(np.sqrt(np.mean(chunk ** 2))) of a non-empty chunk:
\* samples in 10^-3, result in 10^-5
Rms(chunk) == 10 * Isqrt((100 * SumSq(chunk)) \div Len(chunk))

----------------------------------------------------------------------------
(* VMCLipSync *)

VOWELS == <<"A", "I", "U", "E", "O">>
Vowels == {VOWELS[i] : i \in 1..Len(VOWELS)}
ZeroShapes == [v \in Vowels |-> 0]

gain      == 6        \* gain: float = 6.0
max_open  == 65000    \* max_open: float = 0.65
attack_default  == 55 \* attack: float = 0.55
release_default == 75 \* release: float = 0.75
PhaseStep == 7        \* vowel_speed / FPS = 3.5 / 30 = 7/60 of a cycle
SpeakingThreshold == 2000   \* 0.02
SnapThreshold == 500        \* 0.005
ShapeLerp == 35             \* shape_lerp = 0.35
FadeSteps == 8              \* range(8)

\* max(0.0, math.sin(phase * 2.0 * math.pi + offset)), units of 10^-4,
\* indexed by the phase in sixtieths of a cycle (index 1 is phase 0)
Lobe == [
  A |-> <<0, 1045, 2079, 3090, 4067, 5000, 5878, 6691, 7431, 8090, 8660, 9135,
          9511, 9781, 9945, 10000, 9945, 9781, 9511, 9135, 8660, 8090, 7431,
          6691, 5878, 5000, 4067, 3090, 2079, 1045, 0, 0, 0, 0, 0, 0, 0, 0, 0,
          0, 0, 0, 0, 0, 0, 0, 0, 0, 0, 0, 0, 0, 0, 0, 0, 0, 0, 0, 0, 0>>,
  E |-> <<9320, 9648, 9870, 9984, 9988, 9883, 9670, 9351, 8929, 8410, 7798,
          7101, 6326, 5482, 4578, 3624, 2629, 1607, 566, 0, 0, 0, 0, 0, 0, 0,
          0, 0, 0, 0, 0, 0, 0, 0, 0, 0, 0, 0, 0, 0, 0, 0, 0, 0, 0, 0, 0, 0, 0,
          481, 1522, 2547, 3544, 4502, 5410, 6260, 7041, 7744, 8363, 8891>>,
  I |-> <<5985, 5115, 4188, 3216, 2209, 1177, 133, 0, 0, 0, 0, 0, 0, 0, 0, 0,
          0, 0, 0, 0, 0, 0, 0, 0, 0, 0, 0, 0, 0, 0, 0, 0, 0, 0, 0, 0, 0, 913,
          1949, 2964, 3946, 4885, 5770, 6592, 7342, 8011, 8593, 9081, 9469,
          9753, 9930, 9999, 9958, 9808, 9551, 9189, 8726, 8167, 7520, 6789>>,
  O |-> <<0, 0, 0, 0, 0, 0, 0, 0, 0, 0, 0, 0, 0, 0, 0, 0, 0, 0, 0, 0, 0, 0, 0,
          0, 301, 1344, 2372, 3375, 4340, 5258, 6119, 6912, 7629, 8263, 8807,
          9254, 9599, 9840, 9972, 9995, 9909, 9714, 9413, 9009, 8506, 7910,
          7227, 6465, 5632, 4737, 3791, 2803, 1784, 746, 0, 0, 0, 0, 0, 0>>,
  U |-> <<0, 0, 0, 0, 0, 0, 0, 0, 0, 0, 0, 0, 0, 781, 1819, 2837, 3823, 4768,
          5661, 6492, 7251, 7931, 8524, 9024, 9425, 9723, 9914, 9996, 9969,
          9833, 9589, 9240, 8790, 8243, 7606, 6886, 6091, 5228, 4308, 3342,
          2338, 1309, 265, 0, 0, 0, 0, 0, 0, 0, 0, 0, 0, 0, 0, 0, 0, 0, 0, 0>>]

\* the per-vowel factors of target_shapes, percent
VowelWeight == [A |-> 100, E |-> 85, I |-> 70, O |-> 90, U |-> 75]

\* mutant: the target is not capped at max_open
EnvelopeTarget_uncapped(rms) == rms * gain

\* target = min(self.max_open, rms * self.gain)
EnvelopeTarget(rms) == Min(max_open, rms * gain)

\* mutant: the opening branch applies the attack factor twice over
EnvelopeFilter_overshoot(env, target, att, rel) ==
    IF target > env
    THEN env + RoundDiv((target - env) * att * 2, 100)
    ELSE env + RoundDiv((target - env) * (100 - rel), 100)

\* mutant: the closing branch scales by release, not by 1 - release
EnvelopeFilter_release(env, target, att, rel) ==
    IF target > env
    THEN env + RoundDiv((target - env) * att, 100)
    ELSE env + RoundDiv((target - env) * rel, 100)

\* the asymmetric envelope: the new self._envelope
EnvelopeFilter(env, target, att, rel) ==
    IF target > env
    THEN env + RoundDiv((target - env) * att, 100)
    ELSE env + RoundDiv((target - env) * (100 - rel), 100)

\* envelope = max(0.0, min(self.max_open, self._envelope))
ClampLevel(env) == Max(0, Min(max_open, env))

\* raw_a .. raw_u at a phase
RawLobe(v, phase) == Lobe[v][(phase % 60) + 1]

LobeTotal(phase) ==
    LET total == RawLobe("A", phase) + RawLobe("E", phase) + RawLobe("I", phase)
                 + RawLobe("O", phase) + RawLobe("U", phase)
    IN  IF total < 100 THEN 10000 ELSE total

\* target_shapes of the speaking branch
TargetShapes(envelope, phase) ==
    [v \in Vowels |->
        RoundDiv(RoundDiv(RawLobe(v, phase) * envelope, LobeTotal(phase))
                 * VowelWeight[v], 100)]

\* mutant: small weights are sent as they are
Smooth_unsnapped(prev, target) ==
    [v \in Vowels |-> prev[v] + RoundDiv((target[v] - prev[v]) * ShapeLerp, 100)]

\* smoothed[v], with the snap to zero
Smooth(prev, target) ==
    [v \in Vowels |->
        LET s == prev[v] + RoundDiv((target[v] - prev[v]) * ShapeLerp, 100)
        IN  IF s < SnapThreshold THEN 0 ELSE s]

\* mutant: the gate leaves the vowel phase where it is
RmsToBlendShapes_phase_kept(rms, env, phase, prev, att, rel) ==
    LET stored   == EnvelopeFilter(env, EnvelopeTarget(rms), att, rel)
        clamped  == ClampLevel(stored)
        speaking == clamped >= SpeakingThreshold
        envelope == IF speaking THEN clamped ELSE 0
        phase2   == IF speaking THEN phase + PhaseStep ELSE phase
        target   == IF speaking THEN TargetShapes(envelope, phase2) ELSE ZeroShapes
        smoothed == Smooth(prev, target)
    IN  [_envelope |-> stored, _vowel_phase |-> phase2, _prev_shapes |-> smoothed,
         frame |-> smoothed, level |-> envelope]

\* rms_to_blend_shapes up to the send: the new fields, the frame to send and
\* the value returned
RmsToBlendShapes(rms, env, phase, prev, att, rel) ==
    LET stored   == EnvelopeFilter(env, EnvelopeTarget(rms), att, rel)
        clamped  == ClampLevel(stored)
        speaking == clamped >= SpeakingThreshold
        envelope == IF speaking THEN clamped ELSE 0
        phase2   == IF speaking THEN phase + PhaseStep ELSE 0
        target   == IF speaking THEN TargetShapes(envelope, phase2) ELSE ZeroShapes
        smoothed == Smooth(prev, target)
    IN  [_envelope |-> stored, _vowel_phase |-> phase2, _prev_shapes |-> smoothed,
         frame |-> smoothed, level |-> envelope]

\* mutant: fade = 1.0 - step / 8.0
FadeFrame_from_one(prev, step) ==
    [v \in Vowels |-> RoundDiv(prev[v] * (FadeSteps - step), FadeSteps)]

\* the frame of one step of _fade_close: fade = 1.0 - (step + 1) / 8.0
FadeFrame(prev, step) ==
    [v \in Vowels |-> RoundDiv(prev[v] * (FadeSteps - (step + 1)), FadeSteps)]

\* the loop of _fade_close from `step` on; send_message raises in iteration
\* fail_at (if any)
RECURSIVE FadeLoop(_, _, _, _)
FadeLoop(prev, step, frames, fail_at) ==
    IF step = FadeSteps
    THEN [_prev_shapes |-> prev, frames |-> frames, raised |-> FALSE]
    ELSE LET shapes == FadeFrame(prev, step)
         IN  IF fail_at = step
             THEN [_prev_shapes |-> shapes, frames |-> frames, raised |-> TRUE]
             ELSE FadeLoop(shapes, step + 1, Append(frames, shapes), fail_at)

\* fail_at = FadeSteps: the final zero frame fails; NoFailure: no send fails
NoFailure == FadeSteps + 1

\* mutant: the forced all-zero frame after the loop is not sent
FadeClose_unforced(prev, env, fail_at) ==
    LET loop == FadeLoop(prev, 0, <<>>, fail_at)
    IN  IF loop.raised \/ fail_at = FadeSteps
        THEN [_prev_shapes |-> loop._prev_shapes, _envelope |-> env,
              frames |-> loop.frames, raised |-> TRUE]
        ELSE [_prev_shapes |-> ZeroShapes, _envelope |-> 0,
              frames |-> loop.frames, raised |-> FALSE]

\* _fade_close: the frames sent, the fields left, and whether it raised
FadeClose(prev, env, fail_at) ==
    LET loop == FadeLoop(prev, 0, <<>>, fail_at)
    IN  IF loop.raised \/ fail_at = FadeSteps
        THEN [_prev_shapes |-> loop._prev_shapes, _envelope |-> env,
              frames |-> loop.frames, raised |-> TRUE]
        ELSE [_prev_shapes |-> ZeroShapes, _envelope |-> 0,
              frames |-> Append(loop.frames, ZeroShapes), raised |-> FALSE]


----------------------------------------------------------------------------
(* Request bodies and PCM buffers *)

Buffers == 1..MaxBuffers

NoBody    == [kind |-> "none",    samples |-> <<>>]
EmptyBody == [kind |-> "empty",   samples |-> <<>>]   \* b''
Garbage   == [kind |-> "garbage", samples |-> <<>>]   \* bytes AudioSegment cannot decode
Wav(s)    == [kind |-> "wav",     samples |-> s]      \* a mono file with samples s

SampleValues == {0, 300, 1000}
Tone == Wav(<<300, 300>>)

\* the bodies posted in the system specifications
PostedBodies == {EmptyBody, Garbage, Tone}

\* blocksize=1024: the frames of one callback, in model frames
BlockFrames == {1}

RECURSIVE SeqsUpTo(_, _)
SeqsUpTo(S, n) ==
    IF n = 0 THEN {<<>>}
    ELSE LET shorter == SeqsUpTo(S, n - 1)
         IN  shorter \cup {Append(s, x) : s \in {t \in shorter : Len(t) = n - 1}, x \in S}

\* the buffers of the callback specification
CallbackBodies == {Wav(s) : s \in SeqsUpTo(SampleValues, MaxFrames)}

ChunkSizes == 1..MaxChunk

Zeros(n) == [i \in 1..n |-> 0]


----------------------------------------------------------------------------
(* Initial state: the router constructed, the API server started *)

NoResponse == [op |-> "none", success |-> TRUE, n |-> 0]

InitVmc ==
    /\ attack = attack_default
    /\ release = release_default
    /\ _envelope = 0
    /\ _vowel_phase = 0
    /\ _prev_shapes = ZeroShapes
    /\ last_level = 0
    /\ last_frame = ZeroShapes

InitQueue ==
    /\ playback_queue = <<>>
    /\ unfinished_tasks = 0
    /\ body = [b \in Buffers |-> NoBody]
    /\ enqueued = 0
    /\ resp = NoResponse
    /\ cleared = {}

InitWorker ==
    /\ worker = "get"
    /\ worker_item = 0
    /\ started = <<>>

InitRender ==
    /\ session = [b \in Buffers |-> "idle"]
    /\ stream = [b \in Buffers |-> "none"]
    /\ write_pos = [b \in Buffers |-> 0]
    /\ current_rms = [b \in Buffers |-> 0]
    /\ playback_done = [b \in Buffers |-> FALSE]
    /\ outdata = [b \in Buffers |-> <<>>]
    /\ played = [b \in Buffers |-> <<>>]

InitCoord ==
    /\ vmc_thread = [b \in Buffers |-> "none"]
    /\ ticks = [b \in Buffers |-> 0]
    /\ sent = [b \in Buffers |-> <<>>]

InitStep ==
    /\ updates = 0
    /\ step_phase = "off"
    /\ step_rms = 0
    /\ attack_ticks = 0
    /\ decay_ticks = 0

\* no handler has started audio output
InitDirect ==
    /\ play_direct = "idle"
    /\ test_tones = 0

\* the threads that call _send_blend_shapes
Senders == {"vmc_worker", "play_audio_with_vmc"}

\* no call of _send_blend_shapes in progress: i is the number of the next
\* message of the call (0: no call), n counts the calls of the thread
NotSending == [values |-> ZeroShapes, i |-> 0, n |-> 0]

InitWire ==
    /\ wire = <<>>
    /\ sending = [t \in Senders |-> NotSending]

\* the port was bound at the first attempt
InitBind ==
    /\ bind = "listening"
    /\ attempt = 0
    /\ retry_delay = 1
    /\ bind_attempts = 1
    /\ sleeps = <<>>
    /\ clock = 0
    /\ port_busy = 0

Init ==
    /\ InitVmc /\ InitQueue /\ InitWorker /\ InitRender /\ InitCoord /\ InitStep
    /\ InitDirect /\ InitWire /\ InitBind
    /\ faults = 0

----------------------------------------------------------------------------
(* Request handlers (coroutines of the event loop; no suspension point     *)
(* between reading the queue and answering)                                *)

Reply(op, success, n) == [op |-> op, success |-> success, n |-> n]

\* mutant: the depth before the insertion
Position_before(qsize) == qsize

\* 'position' of the reply of POST /play-bytes
Position(qsize) == qsize + 1

\* asyncio.Queue.put on the unbounded queue
QueuePut(queue, item) == Append(queue, item)

\* POST /play-bytes with body bytes
handle_play_bytes(bytes) ==
    IF bytes.kind = "empty"
    THEN /\ resp' = Reply("play-bytes", FALSE, 0)
         /\ UNCHANGED <<playback_queue, unfinished_tasks, body, enqueued, cleared>>
         /\ UNCHANGED <<vmcVars, workerVars, renderVars, coordVars, faults, stepVars, directVars, wireVars, bindVars>>
    ELSE /\ LET qsize == Len(playback_queue)
                b == enqueued + 1
            IN  /\ playback_queue' = QueuePut(playback_queue, b)
                /\ unfinished_tasks' = unfinished_tasks + 1
                /\ body' = [body EXCEPT ![b] = bytes]
                /\ enqueued' = b
                /\ resp' = Reply("play-bytes", TRUE, Position(qsize))
         /\ UNCHANGED cleared
         /\ UNCHANGED <<vmcVars, workerVars, renderVars, coordVars, faults, stepVars, directVars, wireVars, bindVars>>

\* mutant: the loop of handle_clear without task_done
RECURSIVE ClearLoop_no_task_done(_, _, _, _)
ClearLoop_no_task_done(queue, unfinished, n, removed) ==
    IF queue = <<>>
    THEN [queue |-> queue, unfinished |-> unfinished, cleared |-> n,
          removed |-> removed]
    ELSE ClearLoop_no_task_done(Tail(queue), unfinished, n + 1,
                                removed \cup {Head(queue)})

\* the loop of handle_clear: get_nowait and task_done until the queue is empty
\* (the items removed, the queue left, the counter, the count returned)
RECURSIVE ClearLoop(_, _, _, _)
ClearLoop(queue, unfinished, n, removed) ==
    IF queue = <<>>
    THEN [queue |-> queue, unfinished |-> unfinished, cleared |-> n,
          removed |-> removed]
    ELSE ClearLoop(Tail(queue), unfinished - 1, n + 1, removed \cup {Head(queue)})

\* mutant: `if` for `while`, one item removed at most
Drain_once(queue, unfinished) ==
    IF queue = <<>>
    THEN [queue |-> queue, unfinished |-> unfinished, cleared |-> 0, removed |-> {}]
    ELSE [queue |-> Tail(queue), unfinished |-> unfinished - 1, cleared |-> 1,
          removed |-> {Head(queue)}]

Drain(queue, unfinished) == ClearLoop(queue, unfinished, 0, {})

\* POST /clear
handle_clear ==
    LET r == Drain(playback_queue, unfinished_tasks)
    IN  /\ playback_queue' = r.queue
        /\ unfinished_tasks' = r.unfinished
        /\ cleared' = cleared \cup r.removed
        /\ resp' = Reply("clear", TRUE, r.cleared)
        /\ UNCHANGED <<body, enqueued>>
        /\ UNCHANGED <<vmcVars, workerVars, renderVars, coordVars, faults, stepVars, directVars, wireVars, bindVars>>

----------------------------------------------------------------------------
(* playback_worker *)

\* mutant: a LIFO queue
QueueGet_lifo(queue) ==
    [item |-> queue[Len(queue)], rest |-> SubSeq(queue, 1, Len(queue) - 1)]

\* asyncio.Queue.get: the item returned and the queue left
QueueGet(queue) == [item |-> Head(queue), rest |-> Tail(queue)]

\* mutant: the playback is started but not awaited
playback_worker_get_noawait ==
    /\ worker = "get"
    /\ playback_queue # <<>>
    /\ LET g == QueueGet(playback_queue)
       IN  /\ playback_queue' = g.rest
           /\ worker_item' = g.item
           /\ started' = Append(started, g.item)
           /\ session' = [session EXCEPT ![g.item] = "decode"]
    /\ worker' = "get"
    /\ UNCHANGED <<unfinished_tasks, body, enqueued, resp, cleared>>
    /\ UNCHANGED <<stream, write_pos, current_rms, playback_done, outdata, played>>
    /\ UNCHANGED <<vmcVars, coordVars, faults, stepVars, directVars, wireVars, bindVars>>

\* audio_data = await playback_queue.get(); asyncio.to_thread(...) started
\* and awaited
playback_worker_get ==
    /\ worker = "get"
    /\ playback_queue # <<>>
    /\ LET g == QueueGet(playback_queue)
       IN  /\ playback_queue' = g.rest
           /\ worker_item' = g.item
           /\ started' = Append(started, g.item)
           /\ session' = [session EXCEPT ![g.item] = "decode"]
    /\ worker' = "play"
    /\ UNCHANGED <<unfinished_tasks, body, enqueued, resp, cleared>>
    /\ UNCHANGED <<stream, write_pos, current_rms, playback_done, outdata, played>>
    /\ UNCHANGED <<vmcVars, coordVars, faults, stepVars, directVars, wireVars, bindVars>>

\* to_thread has returned or raised; finally: playback_queue.task_done()
playback_worker_done ==
    /\ worker = "play"
    /\ session[worker_item] \in {"returned", "raised"}
    /\ unfinished_tasks' = unfinished_tasks - 1
    /\ worker' = "get"
    /\ worker_item' = 0
    /\ UNCHANGED <<playback_queue, body, enqueued, resp, cleared, started>>
    /\ UNCHANGED <<vmcVars, renderVars, coordVars, faults, stepVars, directVars, wireVars, bindVars>>

----------------------------------------------------------------------------
(* _send_blend_shapes: the frames go out; a raising send_message is a fault *)

Transmit(b, frames, raised) ==
    /\ sent' = [sent EXCEPT ![b] = @ \o frames]
    /\ IF raised
       THEN faults < MaxFaults /\ faults' = faults + 1
       ELSE UNCHANGED faults

----------------------------------------------------------------------------
(* AudioRouter.play_audio_with_vmc(audio_data) for buffer b *)

\* mutant: one amplitude cell shared by the sessions and not reset at start
play_audio_decode_stale(b) ==
    /\ session[b] = "decode"
    /\ IF body[b].kind = "wav"
       THEN /\ session' = [session EXCEPT ![b] = "open"]
            /\ write_pos' = [write_pos EXCEPT ![b] = 0]
            /\ current_rms' = [current_rms EXCEPT ![b] =
                  IF Len(started) > 1 THEN current_rms[started[Len(started) - 1]] ELSE 0]
            /\ playback_done' = [playback_done EXCEPT ![b] = FALSE]
            /\ vmc_thread' = [vmc_thread EXCEPT ![b] = "loop"]
       ELSE /\ session' = [session EXCEPT ![b] = "except"]
            /\ UNCHANGED <<write_pos, current_rms, playback_done, vmc_thread>>
    /\ UNCHANGED <<stream, outdata, played, ticks, sent>>
    /\ UNCHANGED <<vmcVars, queueVars, workerVars, faults, stepVars, directVars, wireVars, bindVars>>

\* AudioSegment.from_file ... vmc_thread.start(): a decode failure raises,
\* otherwise the shared state is created and the vmc thread started
play_audio_decode(b) ==
    /\ session[b] = "decode"
    /\ IF body[b].kind = "wav"
       THEN /\ session' = [session EXCEPT ![b] = "open"]
            /\ write_pos' = [write_pos EXCEPT ![b] = 0]
            /\ current_rms' = [current_rms EXCEPT ![b] = 0]
            /\ playback_done' = [playback_done EXCEPT ![b] = FALSE]
            /\ vmc_thread' = [vmc_thread EXCEPT ![b] = "loop"]
       ELSE /\ session' = [session EXCEPT ![b] = "except"]
            /\ UNCHANGED <<write_pos, current_rms, playback_done, vmc_thread>>
    /\ UNCHANGED <<stream, outdata, played, ticks, sent>>
    /\ UNCHANGED <<vmcVars, queueVars, workerVars, faults, stepVars, directVars, wireVars, bindVars>>

\* stream = sd.OutputStream(...); with stream: the stream starts
play_audio_open(b) ==
    /\ session[b] = "open"
    /\ session' = [session EXCEPT ![b] = "wait"]
    /\ stream' = [stream EXCEPT ![b] = "active"]
    /\ UNCHANGED <<write_pos, current_rms, playback_done, outdata, played>>
    /\ UNCHANGED <<vmcVars, queueVars, workerVars, coordVars, faults, stepVars, directVars, wireVars, bindVars>>

\* sd.OutputStream(...) or stream.start() raises (no usable output device)
play_audio_open_fails(b) ==
    /\ session[b] = "open"
    /\ faults < MaxFaults
    /\ faults' = faults + 1
    /\ session' = [session EXCEPT ![b] = "except"]
    /\ UNCHANGED <<stream, write_pos, current_rms, playback_done, outdata, played>>
    /\ UNCHANGED <<vmcVars, queueVars, workerVars, coordVars, stepVars, directVars, wireVars, bindVars>>

\* the stream dies mid-playback: no further callback is delivered
stream_fails(b) ==
    /\ stream[b] = "active"
    /\ ~playback_done[b]
    /\ faults < MaxFaults
    /\ faults' = faults + 1
    /\ stream' = [stream EXCEPT ![b] = "dead"]
    /\ UNCHANGED <<session, write_pos, current_rms, playback_done, outdata, played>>
    /\ UNCHANGED <<vmcVars, queueVars, workerVars, coordVars, stepVars, directVars, wireVars, bindVars>>

\* mutant: completion is signalled only by the callback after the final chunk
AudioCallback_late(smp, pos, frames) ==
    LET total_samples == Len(smp)
        end0 == pos + frames
    IN  IF pos >= total_samples
        THEN [outdata |-> Zeros(frames), rms |-> 0, write_pos |-> pos,
              copied |-> <<>>, stop |-> TRUE]
        ELSE LET end == IF end0 > total_samples THEN total_samples ELSE end0
                 mono_chunk == SubSeq(smp, pos + 1, end)
             IN  [outdata |-> mono_chunk \o Zeros(frames - (end - pos)),
                  rms |-> Rms(mono_chunk),
                  write_pos |-> end,
                  copied |-> [i \in 1..(end - pos) |-> pos + i - 1],
                  stop |-> end0 > total_samples]

\* mutant: the cursor advances by the frames requested, not the frames copied
AudioCallback_unclamped(smp, pos, frames) ==
    LET total_samples == Len(smp)
        end0 == pos + frames
    IN  IF pos >= total_samples
        THEN [outdata |-> Zeros(frames), rms |-> 0, write_pos |-> pos,
              copied |-> <<>>, stop |-> TRUE]
        ELSE LET end == IF end0 > total_samples THEN total_samples ELSE end0
                 mono_chunk == SubSeq(smp, pos + 1, end)
             IN  [outdata |-> mono_chunk \o Zeros(frames - (end - pos)),
                  rms |-> Rms(mono_chunk),
                  write_pos |-> end0,
                  copied |-> [i \in 1..(end - pos) |-> pos + i - 1],
                  stop |-> end >= total_samples]

\* mutant: a call at the buffer end still advances the cursor and keeps the
\* amplitude of the last sample
AudioCallback_end_advances(smp, pos, frames) ==
    LET total_samples == Len(smp)
        start == pos
        end0  == start + frames
    IN  IF start >= total_samples
        THEN [outdata |-> Zeros(frames),
              rms |-> IF total_samples = 0 THEN 0 ELSE Rms(<<smp[total_samples]>>),
              write_pos |-> end0, copied |-> <<>>, stop |-> TRUE]
        ELSE LET end    == IF end0 > total_samples THEN total_samples ELSE end0
                 actual == end - start
                 mono_chunk == SubSeq(smp, start + 1, end)
             IN  [outdata |-> mono_chunk \o Zeros(frames - actual),
                  rms |-> Rms(mono_chunk),
                  write_pos |-> end,
                  copied |-> [i \in 1..actual |-> start + i - 1],
                  stop |-> end >= total_samples]

\* one call of audio_callback(outdata, frames, ...) on buffer smp with the
\* cursor at pos: the chunk, the amplitude, the cursor, the frames copied,
\* and whether playback_done is set and CallbackStop raised
AudioCallback(smp, pos, frames) ==
    LET total_samples == Len(smp)
        start == pos
        end0  == start + frames
    IN  IF start >= total_samples
        THEN [outdata |-> Zeros(frames), rms |-> 0, write_pos |-> pos,
              copied |-> <<>>, stop |-> TRUE]
        ELSE LET end    == IF end0 > total_samples THEN total_samples ELSE end0
                 actual == end - start
                 mono_chunk == SubSeq(smp, start + 1, end)
             IN  [outdata |-> mono_chunk \o Zeros(frames - actual),
                  rms |-> Rms(mono_chunk),
                  write_pos |-> end,
                  copied |-> [i \in 1..actual |-> start + i - 1],
                  stop |-> end >= total_samples]

\* the audio driver calls audio_callback with a chunk of `frames` frames
audio_callback(b, frames) ==
    /\ stream[b] = "active"
    /\ LET r == AudioCallback(body[b].samples, write_pos[b], frames)
       IN  /\ outdata' = [outdata EXCEPT ![b] = r.outdata]
           /\ current_rms' = [current_rms EXCEPT ![b] = r.rms]
           /\ write_pos' = [write_pos EXCEPT ![b] = r.write_pos]
           /\ played' = [played EXCEPT ![b] = @ \o r.copied]
           /\ playback_done' = [playback_done EXCEPT ![b] = @ \/ r.stop]
           /\ stream' = [stream EXCEPT ![b] = IF r.stop THEN "stopped" ELSE @]
    /\ UNCHANGED session
    /\ UNCHANGED <<vmcVars, queueVars, workerVars, coordVars, faults, stepVars, directVars, wireVars, bindVars>>

\* mutant: the session resets the amplitude cell when playback is done
play_audio_wait_reset(b) ==
    /\ session[b] = "wait"
    /\ playback_done[b]
    /\ session' = [session EXCEPT ![b] = "join"]
    /\ stream' = [stream EXCEPT ![b] = "closed"]
    /\ current_rms' = [current_rms EXCEPT ![b] = 0]
    /\ UNCHANGED <<write_pos, playback_done, outdata, played>>
    /\ UNCHANGED <<vmcVars, queueVars, workerVars, coordVars, faults, stepVars, directVars, wireVars, bindVars>>

\* playback_done.wait() returns; leaving `with stream` closes the stream
play_audio_wait(b) ==
    /\ session[b] = "wait"
    /\ playback_done[b]
    /\ session' = [session EXCEPT ![b] = "join"]
    /\ stream' = [stream EXCEPT ![b] = "closed"]
    /\ UNCHANGED <<write_pos, current_rms, playback_done, outdata, played>>
    /\ UNCHANGED <<vmcVars, queueVars, workerVars, coordVars, faults, stepVars, directVars, wireVars, bindVars>>

\* vmc_thread.join(timeout=5) returns and the function returns True.  The
\* fade lasts 8/30 s, so the join ends with the thread, not with the timeout.
play_audio_join(b) ==
    /\ session[b] = "join"
    /\ vmc_thread[b] \in {"done", "dead"}
    /\ session' = [session EXCEPT ![b] = "returned"]
    /\ UNCHANGED <<stream, write_pos, current_rms, playback_done, outdata, played>>
    /\ UNCHANGED <<vmcVars, queueVars, workerVars, coordVars, faults, stepVars, directVars, wireVars, bindVars>>

\* close_mouth: the fields left and the frames sent
CloseMouth(prev, env, ok) ==
    IF ok
    THEN [_prev_shapes |-> ZeroShapes, _envelope |-> 0,
          frames |-> <<ZeroShapes>>, raised |-> FALSE]
    ELSE [_prev_shapes |-> prev, _envelope |-> env, frames |-> <<>>, raised |-> TRUE]

\* except Exception: self.vmc.close_mouth(); return False
play_audio_except(b, ok) ==
    /\ session[b] = "except"
    /\ LET r == CloseMouth(_prev_shapes, _envelope, ok)
       IN  /\ _prev_shapes' = r._prev_shapes
           /\ _envelope' = r._envelope
           /\ Transmit(b, r.frames, r.raised)
           /\ session' = [session EXCEPT ![b] = IF r.raised THEN "raised" ELSE "returned"]
    /\ UNCHANGED <<attack, release, _vowel_phase, last_level, last_frame>>
    /\ UNCHANGED <<stream, write_pos, current_rms, playback_done, outdata, played>>
    /\ UNCHANGED <<vmc_thread, ticks>>
    /\ UNCHANGED <<queueVars, workerVars, stepVars, directVars, wireVars, bindVars>>

----------------------------------------------------------------------------
(* vmc_worker of session b *)

\* one iteration of the loop: rms = current_rms[0]; rms_to_blend_shapes(rms);
\* playback_done.wait(timeout=interval)
vmc_worker_tick(b, ok) ==
    /\ vmc_thread[b] = "loop"
    /\ ~playback_done[b]
    /\ ticks[b] < MaxTicks
    /\ LET r == RmsToBlendShapes(current_rms[b], _envelope, _vowel_phase,
                                 _prev_shapes, attack, release)
       IN  /\ _envelope' = r._envelope
           /\ _vowel_phase' = r._vowel_phase
           /\ _prev_shapes' = r._prev_shapes
           /\ Transmit(b, IF ok THEN <<r.frame>> ELSE <<>>, ~ok)
    /\ ticks' = [ticks EXCEPT ![b] = @ + 1]
    /\ vmc_thread' = [vmc_thread EXCEPT ![b] = IF ok THEN "loop" ELSE "dead"]
    /\ UNCHANGED <<attack, release, last_level, last_frame>>
    /\ UNCHANGED <<queueVars, workerVars, renderVars, stepVars, directVars, wireVars, bindVars>>

\* the loop sees playback_done set: self.vmc._fade_close()
vmc_worker_fade(b, fail_at) ==
    /\ vmc_thread[b] = "loop"
    /\ playback_done[b]
    /\ LET r == FadeClose(_prev_shapes, _envelope, fail_at)
       IN  /\ _prev_shapes' = r._prev_shapes
           /\ _envelope' = r._envelope
           /\ Transmit(b, r.frames, r.raised)
           /\ vmc_thread' = [vmc_thread EXCEPT ![b] = IF r.raised THEN "dead" ELSE "done"]
    /\ UNCHANGED <<attack, release, _vowel_phase, last_level, last_frame, ticks>>
    /\ UNCHANGED <<queueVars, workerVars, renderVars, stepVars, directVars, wireVars, bindVars>>

----------------------------------------------------------------------------
(* The system without device, stream or transport faults *)

\* the model stops posting after `limit` buffers
Posts(bytes, limit) == bytes.kind = "empty" \/ enqueued < limit

Next ==
    \/ \E bytes \in PostedBodies : Posts(bytes, MaxBuffers) /\ handle_play_bytes(bytes)
    \/ handle_clear
    \/ playback_worker_get
    \/ playback_worker_done
    \/ \E b \in Buffers : play_audio_decode(b)
    \/ \E b \in Buffers : play_audio_open(b)
    \/ \E b \in Buffers, frames \in BlockFrames : audio_callback(b, frames)
    \/ \E b \in Buffers : play_audio_wait(b)
    \/ \E b \in Buffers : play_audio_join(b)
    \/ \E b \in Buffers : play_audio_except(b, TRUE)
    \/ \E b \in Buffers : vmc_worker_tick(b, TRUE)
    \/ \E b \in Buffers : vmc_worker_fade(b, NoFailure)

Spec == Init /\ [][Next]_vars

----------------------------------------------------------------------------
(* The system with faults: the output device cannot be opened, the stream  *)
(* dies, send_message raises (in a tick, in close_mouth, at the first      *)
(* frame of the fade or at its final zero frame)                           *)

FadeFailures == {0, FadeSteps}

\* the steps the event loop, the threads and the audio driver take by themselves
Progress ==
    \/ playback_worker_get
    \/ playback_worker_done
    \/ \E b \in Buffers : play_audio_decode(b)
    \/ \E b \in Buffers : play_audio_open(b)
    \/ \E b \in Buffers, frames \in BlockFrames : audio_callback(b, frames)
    \/ \E b \in Buffers : play_audio_wait(b)
    \/ \E b \in Buffers : play_audio_join(b)
    \/ \E b \in Buffers : play_audio_except(b, TRUE)
    \/ \E b \in Buffers : vmc_worker_tick(b, TRUE)
    \/ \E b \in Buffers : vmc_worker_fade(b, NoFailure)

FaultNext ==
    \/ \E bytes \in PostedBodies : Posts(bytes, MaxFaultBuffers) /\ handle_play_bytes(bytes)
    \/ handle_clear
    \/ Progress
    \/ \E b \in Buffers : play_audio_open_fails(b)
    \/ \E b \in Buffers : stream_fails(b)
    \/ \E b \in Buffers : play_audio_except(b, FALSE)
    \/ \E b \in Buffers : vmc_worker_tick(b, FALSE)
    \/ \E b \in Buffers, fail_at \in FadeFailures : vmc_worker_fade(b, fail_at)

\* threads and the event loop are scheduled, and an active stream keeps
\* calling back: no step of Progress stays enabled forever without one
\* being taken
FaultSpec == Init /\ [][FaultNext]_vars /\ WF_vars(Progress)

----------------------------------------------------------------------------
(* One render session under arbitrary chunk sizes: buffer 1 posted,        *)
(* dequeued, decoded and its stream opened                                 *)

InitCallback ==
    /\ InitVmc /\ InitStep /\ InitDirect /\ InitWire /\ InitBind
    /\ faults = 0
    /\ \E bytes \in CallbackBodies :
          body = [b \in Buffers |-> IF b = 1 THEN bytes ELSE NoBody]
    /\ playback_queue = <<>>
    /\ unfinished_tasks = 1
    /\ enqueued = 1
    /\ resp = Reply("play-bytes", TRUE, 1)
    /\ cleared = {}
    /\ worker = "play"
    /\ worker_item = 1
    /\ started = <<1>>
    /\ session = [b \in Buffers |-> IF b = 1 THEN "wait" ELSE "idle"]
    /\ stream = [b \in Buffers |-> IF b = 1 THEN "active" ELSE "none"]
    /\ write_pos = [b \in Buffers |-> 0]
    /\ current_rms = [b \in Buffers |-> 0]
    /\ playback_done = [b \in Buffers |-> FALSE]
    /\ outdata = [b \in Buffers |-> <<>>]
    /\ played = [b \in Buffers |-> <<>>]
    /\ vmc_thread = [b \in Buffers |-> IF b = 1 THEN "loop" ELSE "none"]
    /\ ticks = [b \in Buffers |-> 0]
    /\ sent = [b \in Buffers |-> <<>>]

NextCallback == \E frames \in ChunkSizes : audio_callback(1, frames)

SpecCallback == InitCallback /\ [][NextCallback]_vars

----------------------------------------------------------------------------
(* The envelope tracker called directly, one update per tick               *)

\* a call of rms_to_blend_shapes(rms) outside a session
Update(rms) ==
    LET r == RmsToBlendShapes(rms, _envelope, _vowel_phase, _prev_shapes,
                              attack, release)
    IN  /\ _envelope' = r._envelope
        /\ _vowel_phase' = r._vowel_phase
        /\ _prev_shapes' = r._prev_shapes
        /\ last_frame' = r.frame
        /\ last_level' = r.level
        /\ UNCHANGED <<attack, release>>

\* loudness samples, 10^-5: silence, below the gate, soft, medium, loud, full scale
RmsInputs == {0, 300, 1000, 5000, 10000, 100000}

\* attack and release factors of the constructor, percent
Factors == {0, 55, 75, 100}

InitEnvelope ==
    /\ attack \in Factors
    /\ release \in Factors
    /\ _envelope = 0
    /\ _vowel_phase = 0
    /\ _prev_shapes = ZeroShapes
    /\ last_level = 0
    /\ last_frame = ZeroShapes
    /\ InitQueue /\ InitWorker /\ InitRender /\ InitCoord /\ InitStep
    /\ InitDirect /\ InitWire /\ InitBind
    /\ faults = 0

rms_to_blend_shapes(rms) ==
    /\ updates < MaxUpdates
    /\ Update(rms)
    /\ updates' = updates + 1
    /\ UNCHANGED <<step_phase, step_rms, attack_ticks, decay_ticks>>
    /\ UNCHANGED <<queueVars, workerVars, renderVars, coordVars, faults, directVars, wireVars, bindVars>>

NextEnvelope == \E rms \in RmsInputs : rms_to_blend_shapes(rms)

SpecEnvelope == InitEnvelope /\ [][NextEnvelope]_vars

----------------------------------------------------------------------------
(* send_lip_sync: updates frame by frame, then the fade-out                *)

\* self._fade_close() at the end of send_lip_sync
send_lip_sync_fade ==
    /\ LET r == FadeClose(_prev_shapes, _envelope, NoFailure)
       IN  /\ _prev_shapes' = r._prev_shapes
           /\ _envelope' = r._envelope
           /\ last_frame' = r.frames[Len(r.frames)]
    /\ UNCHANGED <<attack, release, _vowel_phase, last_level>>
    /\ UNCHANGED <<queueVars, workerVars, renderVars, coordVars, faults, stepVars, directVars, wireVars, bindVars>>

NextLipSync ==
    \/ \E rms \in RmsInputs : rms_to_blend_shapes(rms)
    \/ send_lip_sync_fade

SpecLipSync == InitEnvelope /\ [][NextLipSync]_vars

----------------------------------------------------------------------------
(* The step response: loudness 0 -> step_rms until the level is within 1%  *)
(* of the target, then loudness 0 until the level is back at 0             *)

\* (attack, release) with attack > 1 - release
StepConfigs == {<<55, 75>>, <<30, 75>>, <<60, 45>>, <<90, 50>>}

\* sustained loudness whose target is 0.025, 0.06, 0.12, 0.18, 0.3, 0.48,
\* 0.65, 0.65
StepInputs == {417, 1000, 2000, 3000, 5000, 8000, 20000, 100000}

Within1Percent(level, target) ==
    100 * (IF level > target THEN level - target ELSE target - level) <= target

InitStepResponse ==
    /\ \E c \in StepConfigs : attack = c[1] /\ release = c[2]
    /\ _envelope = 0
    /\ _vowel_phase = 0
    /\ _prev_shapes = ZeroShapes
    /\ last_level = 0
    /\ last_frame = ZeroShapes
    /\ InitQueue /\ InitWorker /\ InitRender /\ InitCoord
    /\ InitDirect /\ InitWire /\ InitBind
    /\ faults = 0
    /\ updates = 0
    /\ step_phase = "attack"
    /\ step_rms \in StepInputs
    /\ attack_ticks = 0
    /\ decay_ticks = 0

step_attack ==
    /\ step_phase = "attack"
    /\ Update(step_rms)
    /\ attack_ticks' = attack_ticks + 1
    /\ step_phase' = IF Within1Percent(last_level', EnvelopeTarget(step_rms))
                     THEN "decay" ELSE "attack"
    /\ UNCHANGED <<updates, step_rms, decay_ticks>>
    /\ UNCHANGED <<queueVars, workerVars, renderVars, coordVars, faults, directVars, wireVars, bindVars>>

step_decay ==
    /\ step_phase = "decay"
    /\ Update(0)
    /\ decay_ticks' = decay_ticks + 1
    /\ step_phase' = IF last_level' = 0 THEN "done" ELSE "decay"
    /\ UNCHANGED <<updates, step_rms, attack_ticks>>
    /\ UNCHANGED <<queueVars, workerVars, renderVars, coordVars, faults, directVars, wireVars, bindVars>>

NextStep == step_attack \/ step_decay

SpecStep == InitStepResponse /\ [][NextStep]_vars

----------------------------------------------------------------------------
(* The system rendering buffers of different loudness                      *)

\* a silent file
Quiet == Wav(<<0, 0>>)

CellBodies == {Tone, Quiet, Garbage}

NextCells ==
    \/ \E bytes \in CellBodies : Posts(bytes, MaxCellBuffers) /\ handle_play_bytes(bytes)
    \/ playback_worker_get
    \/ playback_worker_done
    \/ \E b \in Buffers : play_audio_decode(b)
    \/ \E b \in Buffers : play_audio_open(b)
    \/ \E b \in Buffers, frames \in BlockFrames : audio_callback(b, frames)
    \/ \E b \in Buffers : play_audio_wait(b)
    \/ \E b \in Buffers : play_audio_join(b)
    \/ \E b \in Buffers : play_audio_except(b, TRUE)
    \/ \E b \in Buffers : vmc_worker_tick(b, TRUE)
    \/ \E b \in Buffers : vmc_worker_fade(b, NoFailure)

SpecCells == Init /\ [][NextCells]_vars

----------------------------------------------------------------------------
(* The audio callback on a two-channel buffer                              *)

StereoValues == {0, 1000}

\* samples.reshape((-1, 2)): a frame is a pair <<left, right>>
StereoFrames == StereoValues \X StereoValues

StereoBodies == {Wav(s) : s \in SeqsUpTo(StereoFrames, MaxFrames)}

\* samples[start:end, c]
Channel(chunk, c) == [i \in 1..Len(chunk) |-> chunk[i][c]]

\* frames of silence on both channels
Zeros2(n) == [i \in 1..n |-> <<0, 0>>]

\* one call of audio_callback when samples.ndim == 2
AudioCallback2(smp, pos, frames) ==
    LET total_samples == Len(smp)
        start == pos
        end0  == start + frames
    IN  IF start >= total_samples
        THEN [outdata |-> Zeros2(frames), rms |-> 0, write_pos |-> pos,
              copied |-> <<>>, stop |-> TRUE]
        ELSE LET end    == IF end0 > total_samples THEN total_samples ELSE end0
                 actual == end - start
                 mono_chunk == Channel(SubSeq(smp, start + 1, end), 1)
             IN  [outdata |-> SubSeq(smp, start + 1, end) \o Zeros2(frames - actual),
                  rms |-> Rms(mono_chunk),
                  write_pos |-> end,
                  copied |-> [i \in 1..actual |-> start + i - 1],
                  stop |-> end >= total_samples]

audio_callback_2ch(b, frames) ==
    /\ stream[b] = "active"
    /\ LET r == AudioCallback2(body[b].samples, write_pos[b], frames)
       IN  /\ outdata' = [outdata EXCEPT ![b] = r.outdata]
           /\ current_rms' = [current_rms EXCEPT ![b] = r.rms]
           /\ write_pos' = [write_pos EXCEPT ![b] = r.write_pos]
           /\ played' = [played EXCEPT ![b] = @ \o r.copied]
           /\ playback_done' = [playback_done EXCEPT ![b] = @ \/ r.stop]
           /\ stream' = [stream EXCEPT ![b] = IF r.stop THEN "stopped" ELSE @]
    /\ UNCHANGED session
    /\ UNCHANGED <<vmcVars, queueVars, workerVars, coordVars, faults, stepVars, directVars, wireVars, bindVars>>

\* a session of a two-channel file whose stream has just been started
InitStereo ==
    /\ InitVmc /\ InitStep /\ InitDirect /\ InitWire /\ InitBind
    /\ faults = 0
    /\ \E bytes \in StereoBodies :
          body = [b \in Buffers |-> IF b = 1 THEN bytes ELSE NoBody]
    /\ playback_queue = <<>>
    /\ unfinished_tasks = 1
    /\ enqueued = 1
    /\ resp = Reply("play-bytes", TRUE, 1)
    /\ cleared = {}
    /\ worker = "play"
    /\ worker_item = 1
    /\ started = <<1>>
    /\ session = [b \in Buffers |-> IF b = 1 THEN "wait" ELSE "idle"]
    /\ stream = [b \in Buffers |-> IF b = 1 THEN "active" ELSE "none"]
    /\ write_pos = [b \in Buffers |-> 0]
    /\ current_rms = [b \in Buffers |-> 0]
    /\ playback_done = [b \in Buffers |-> FALSE]
    /\ outdata = [b \in Buffers |-> <<>>]
    /\ played = [b \in Buffers |-> <<>>]
    /\ vmc_thread = [b \in Buffers |-> IF b = 1 THEN "loop" ELSE "none"]
    /\ ticks = [b \in Buffers |-> 0]
    /\ sent = [b \in Buffers |-> <<>>]

NextStereo == \E frames \in ChunkSizes : audio_callback_2ch(1, frames)

SpecStereo == InitStereo /\ [][NextStereo]_vars

----------------------------------------------------------------------------
(* start_api_server binding the port                                       *)

max_retries == 5

\* mutant: the delay is not doubled
Backoff_constant(delay) == delay

\* retry_delay *= 2
Backoff(delay) == delay * 2

\* not (attempt < max_retries - 1)
LastAttempt(a) == ~(a < max_retries - 1)

\* the server is started while the port stays busy for port_busy seconds
InitBindLoop ==
    /\ InitVmc /\ InitQueue /\ InitWorker /\ InitRender /\ InitCoord /\ InitStep
    /\ InitDirect /\ InitWire
    /\ faults = 0
    /\ bind = "start"
    /\ attempt = 0
    /\ retry_delay = 1
    /\ bind_attempts = 0
    /\ sleeps = <<>>
    /\ clock = 0
    /\ port_busy \in 0..MaxBusy

\* await site.start() succeeds: break
site_start_ok ==
    /\ bind = "start"
    /\ attempt < max_retries
    /\ clock >= port_busy
    /\ bind' = "listening"
    /\ bind_attempts' = bind_attempts + 1
    /\ UNCHANGED <<attempt, retry_delay, sleeps, clock, port_busy>>
    /\ UNCHANGED <<vmcVars, queueVars, workerVars, renderVars, coordVars, faults, stepVars,
                   directVars, wireVars>>

\* await site.start() raises OSError: retry after a wait, or re-raise
site_start_fails ==
    /\ bind = "start"
    /\ attempt < max_retries
    /\ clock < port_busy
    /\ bind' = IF LastAttempt(attempt) THEN "raised" ELSE "sleep"
    /\ bind_attempts' = bind_attempts + 1
    /\ UNCHANGED <<attempt, retry_delay, sleeps, clock, port_busy>>
    /\ UNCHANGED <<vmcVars, queueVars, workerVars, renderVars, coordVars, faults, stepVars,
                   directVars, wireVars>>

\* await asyncio.sleep(retry_delay); retry_delay *= 2; next iteration
bind_sleep ==
    /\ bind = "sleep"
    /\ clock' = clock + retry_delay
    /\ sleeps' = Append(sleeps, retry_delay)
    /\ retry_delay' = Backoff(retry_delay)
    /\ attempt' = attempt + 1
    /\ bind' = "start"
    /\ UNCHANGED <<bind_attempts, port_busy>>
    /\ UNCHANGED <<vmcVars, queueVars, workerVars, renderVars, coordVars, faults, stepVars,
                   directVars, wireVars>>

NextBind == site_start_ok \/ site_start_fails \/ bind_sleep

SpecBind == InitBindLoop /\ [][NextBind]_vars

----------------------------------------------------------------------------
(* The system with POST /play and GET /test                                *)

\* the event loop is not inside a handler that blocks it
LoopFree == play_direct = "idle"

\* handle_play: the audio is fetched and router.play_audio_bytes called on
\* the event loop; undecodable audio returns False at once, otherwise
\* sd.play() starts the output and sd.wait() blocks
handle_play(bytes) ==
    /\ play_direct = "idle"
    /\ IF bytes.kind = "wav"
       THEN play_direct' = "playing" /\ UNCHANGED resp
       ELSE resp' = Reply("play", FALSE, 0) /\ UNCHANGED play_direct
    /\ UNCHANGED <<playback_queue, unfinished_tasks, body, enqueued, cleared, test_tones>>
    /\ UNCHANGED <<vmcVars, workerVars, renderVars, coordVars, faults, stepVars, wireVars, bindVars>>

\* sd.wait() returns: play_audio_bytes returns True and handle_play answers
handle_play_return ==
    /\ play_direct = "playing"
    /\ play_direct' = "idle"
    /\ resp' = Reply("play", TRUE, 0)
    /\ UNCHANGED <<playback_queue, unfinished_tasks, body, enqueued, cleared, test_tones>>
    /\ UNCHANGED <<vmcVars, workerVars, renderVars, coordVars, faults, stepVars, wireVars, bindVars>>

\* handle_test: play_test_tone is started in a thread, which calls sd.play()
handle_test ==
    /\ test_tones < MaxTones
    /\ test_tones' = test_tones + 1
    /\ resp' = Reply("test", TRUE, 0)
    /\ UNCHANGED <<playback_queue, unfinished_tasks, body, enqueued, cleared, play_direct>>
    /\ UNCHANGED <<vmcVars, workerVars, renderVars, coordVars, faults, stepVars, wireVars, bindVars>>

\* sd.wait() of a test tone returns and its thread ends
play_test_tone_return ==
    /\ test_tones > 0
    /\ test_tones' = test_tones - 1
    /\ UNCHANGED <<play_direct, queueVars>>
    /\ UNCHANGED <<vmcVars, workerVars, renderVars, coordVars, faults, stepVars, wireVars, bindVars>>

NextDirect ==
    \/ \E bytes \in PostedBodies :
          LoopFree /\ Posts(bytes, MaxDirectBuffers) /\ handle_play_bytes(bytes)
    \/ LoopFree /\ handle_clear
    \/ LoopFree /\ playback_worker_get
    \/ LoopFree /\ playback_worker_done
    \/ \E bytes \in PostedBodies : handle_play(bytes)
    \/ LoopFree /\ handle_test
    \/ handle_play_return
    \/ play_test_tone_return
    \/ \E b \in Buffers : play_audio_decode(b)
    \/ \E b \in Buffers : play_audio_open(b)
    \/ \E b \in Buffers, frames \in BlockFrames : audio_callback(b, frames)
    \/ \E b \in Buffers : play_audio_wait(b)
    \/ \E b \in Buffers : play_audio_join(b)
    \/ \E b \in Buffers : play_audio_except(b, TRUE)
    \/ \E b \in Buffers : vmc_worker_tick(b, TRUE)
    \/ \E b \in Buffers : vmc_worker_fade(b, NoFailure)

SpecDirect == Init /\ [][NextDirect]_vars

----------------------------------------------------------------------------
(* _send_blend_shapes message by message: a session whose output device    *)
(* cannot be opened, so that close_mouth runs while vmc_worker is looping   *)

ValAddress   == "/VMC/Ext/Blend/Val"
ApplyAddress == "/VMC/Ext/Blend/Apply"

\* message i of _send_blend_shapes(values): a Val per item of values, in the
\* order of VOWELS, then the Apply; `frame` tells the calls apart
Message(values, i, frame) ==
    IF i <= Len(VOWELS)
    THEN [address |-> ValAddress, args |-> <<VOWELS[i], values[VOWELS[i]]>>,
          frame |-> frame]
    ELSE [address |-> ApplyAddress, args |-> <<>>, frame |-> frame]

\* thread t enters _send_blend_shapes(values)
SendBlendShapes(t, values) ==
    sending' = [sending EXCEPT ![t] = [values |-> values, i |-> 1, n |-> @.n + 1]]

\* thread t is back from _send_blend_shapes
Sent(t) == sending[t].i = Len(VOWELS) + 2

\* self.client.send_message(...): the next message of thread t goes out
send_message(t) ==
    /\ sending[t].i \in 1..(Len(VOWELS) + 1)
    /\ wire' = Append(wire, Message(sending[t].values, sending[t].i, <<t, sending[t].n>>))
    /\ sending' = [sending EXCEPT ![t].i = @ + 1]
    /\ UNCHANGED <<vmcVars, queueVars, workerVars, renderVars, coordVars, faults,
                   stepVars, directVars, bindVars>>

\* vmc_worker: rms = current_rms[0]; rms_to_blend_shapes(rms) up to the send
vmc_worker_update(b) ==
    /\ vmc_thread[b] = "loop"
    /\ ~playback_done[b]
    /\ ticks[b] < MaxTicks
    /\ sending["vmc_worker"].i = 0
    /\ LET r == RmsToBlendShapes(current_rms[b], _envelope, _vowel_phase,
                                 _prev_shapes, attack, release)
       IN  /\ _envelope' = r._envelope
           /\ _vowel_phase' = r._vowel_phase
           /\ _prev_shapes' = r._prev_shapes
           /\ SendBlendShapes("vmc_worker", r.frame)
    /\ ticks' = [ticks EXCEPT ![b] = @ + 1]
    /\ UNCHANGED <<attack, release, last_level, last_frame, vmc_thread, sent, wire>>
    /\ UNCHANGED <<queueVars, workerVars, renderVars, faults, stepVars, directVars, bindVars>>

\* vmc_worker: the frame is out; playback_done.wait(timeout=interval)
vmc_worker_wait(b) ==
    /\ vmc_thread[b] = "loop"
    /\ Sent("vmc_worker")
    /\ sending' = [sending EXCEPT !["vmc_worker"].i = 0]
    /\ sent' = [sent EXCEPT ![b] = Append(@, sending["vmc_worker"].values)]
    /\ UNCHANGED <<vmc_thread, ticks, wire>>
    /\ UNCHANGED <<vmcVars, queueVars, workerVars, renderVars, faults, stepVars, directVars, bindVars>>

\* except Exception: self.vmc.close_mouth() up to the send
close_mouth_send(b) ==
    /\ session[b] = "except"
    /\ sending["play_audio_with_vmc"].i = 0
    /\ SendBlendShapes("play_audio_with_vmc", ZeroShapes)
    /\ UNCHANGED wire
    /\ UNCHANGED <<vmcVars, queueVars, workerVars, renderVars, coordVars, faults,
                   stepVars, directVars, bindVars>>

\* close_mouth: the frame is out; the fields are zeroed; return False
close_mouth_return(b) ==
    /\ session[b] = "except"
    /\ Sent("play_audio_with_vmc")
    /\ sending' = [sending EXCEPT !["play_audio_with_vmc"].i = 0]
    /\ sent' = [sent EXCEPT ![b] = Append(@, ZeroShapes)]
    /\ _prev_shapes' = ZeroShapes
    /\ _envelope' = 0
    /\ session' = [session EXCEPT ![b] = "returned"]
    /\ UNCHANGED <<attack, release, _vowel_phase, last_level, last_frame>>
    /\ UNCHANGED <<stream, write_pos, current_rms, playback_done, outdata, played>>
    /\ UNCHANGED <<vmc_thread, ticks, wire>>
    /\ UNCHANGED <<queueVars, workerVars, faults, stepVars, directVars, bindVars>>

\* buffer 1 posted, dequeued and decoded; the vmc thread started
InitWireSession ==
    /\ InitVmc /\ InitStep /\ InitDirect /\ InitWire /\ InitBind
    /\ faults = 0
    /\ body = [b \in Buffers |-> IF b = 1 THEN Tone ELSE NoBody]
    /\ playback_queue = <<>>
    /\ unfinished_tasks = 1
    /\ enqueued = 1
    /\ resp = Reply("play-bytes", TRUE, 1)
    /\ cleared = {}
    /\ worker = "play"
    /\ worker_item = 1
    /\ started = <<1>>
    /\ session = [b \in Buffers |-> IF b = 1 THEN "open" ELSE "idle"]
    /\ stream = [b \in Buffers |-> "none"]
    /\ write_pos = [b \in Buffers |-> 0]
    /\ current_rms = [b \in Buffers |-> 0]
    /\ playback_done = [b \in Buffers |-> FALSE]
    /\ outdata = [b \in Buffers |-> <<>>]
    /\ played = [b \in Buffers |-> <<>>]
    /\ vmc_thread = [b \in Buffers |-> IF b = 1 THEN "loop" ELSE "none"]
    /\ ticks = [b \in Buffers |-> 0]
    /\ sent = [b \in Buffers |-> <<>>]

NextWire ==
    \/ play_audio_open_fails(1)
    \/ vmc_worker_update(1)
    \/ vmc_worker_wait(1)
    \/ close_mouth_send(1)
    \/ close_mouth_return(1)
    \/ \E t \in Senders : send_message(t)

SpecWire == InitWireSession /\ [][NextWire]_vars

----------------------------------------------------------------------------
(* The fade-out: the callback of session 1 has signalled completion while  *)
(* the coordinator last transmitted a given frame                          *)

\* weights of the frame transmitted last: zero, the snap threshold, max_open
FadeStartFrames ==
    [Vowels -> {0, SnapThreshold, max_open}]

InitFade ==
    /\ attack = attack_default
    /\ release = release_default
    /\ _envelope \in {0, max_open}
    /\ _vowel_phase = 0
    /\ _prev_shapes \in FadeStartFrames
    /\ last_frame = _prev_shapes
    /\ last_level = _envelope
    /\ InitStep /\ InitDirect /\ InitWire /\ InitBind
    /\ faults = 0
    /\ body = [b \in Buffers |-> IF b = 1 THEN Tone ELSE NoBody]
    /\ playback_queue = <<>>
    /\ unfinished_tasks = 1
    /\ enqueued = 1
    /\ resp = Reply("play-bytes", TRUE, 1)
    /\ cleared = {}
    /\ worker = "play"
    /\ worker_item = 1
    /\ started = <<1>>
    /\ session = [b \in Buffers |-> IF b = 1 THEN "wait" ELSE "idle"]
    /\ stream = [b \in Buffers |-> IF b = 1 THEN "stopped" ELSE "none"]
    /\ write_pos = [b \in Buffers |-> IF b = 1 THEN Len(Tone.samples) ELSE 0]
    /\ current_rms = [b \in Buffers |-> 0]
    /\ playback_done = [b \in Buffers |-> b = 1]
    /\ outdata = [b \in Buffers |-> <<>>]
    /\ played = [b \in Buffers |-> <<>>]
    /\ vmc_thread = [b \in Buffers |-> IF b = 1 THEN "loop" ELSE "none"]
    /\ ticks = [b \in Buffers |-> 0]
    /\ sent = [b \in Buffers |-> <<>>]

NextFade ==
    \/ vmc_worker_fade(1, NoFailure)
    \/ play_audio_wait(1)
    \/ play_audio_join(1)

SpecFade == InitFade /\ [][NextFade]_vars

----------------------------------------------------------------------------
(* Properties *)

Range(q) == {q[i] : i \in 1..Len(q)}
Last(q) == q[Len(q)]
Ended == {"returned", "raised"}

\* the sessions whose stream is open and has not signalled completion
ActiveSessions == {b \in Buffers : stream[b] \in {"active", "dead"}}

\* C1: at every instant at most one render session (a stream opened by
\* play_audio_with_vmc whose callback has not signalled completion) is active
C1_AtMostOneRenderSession == Cardinality(ActiveSessions) <= 1

\* a second session is rendering after a first one has returned
C1_Witness ==
    \E b, c \in Buffers : b # c /\ stream[b] = "active" /\ session[c] = "returned"

\* C2: the worker starts the buffers in the order they were enqueued (all of
\* them, one after the other, when nothing was cleared), and every buffer
\* started before the latest one has finished and its stream is closed
C2_RenderedInOrder ==
    /\ \A i, j \in 1..Len(started) : i < j => started[i] < started[j]
    /\ cleared = {} => \A i \in 1..Len(started) : started[i] = i
    /\ \A i \in 1..(Len(started) - 1) :
          /\ session[started[i]] \in Ended
          /\ stream[started[i]] \in {"none", "closed"}

\* three tones were enqueued, nothing was cleared, the third is rendering
C2_Witness ==
    /\ started = <<1, 2, 3>>
    /\ cleared = {}
    /\ \A b \in 1..3 : body[b] = Tone
    /\ stream[3] = "active"

\* C3: a clear removes exactly the pending buffers, answers their number,
\* leaves the queue empty and changes nothing of the worker, the sessions or
\* the lip sync; a removed buffer is never rendered
C3_ClearDrainsPending ==
    /\ [][(resp' # resp /\ resp'.op = "clear") =>
            /\ resp'.n = Len(playback_queue)
            /\ cleared' = cleared \cup Range(playback_queue)
            /\ playback_queue' = <<>>
            /\ UNCHANGED <<workerVars, renderVars, coordVars, vmcVars>>]_vars
    /\ [](\A b \in cleared : session[b] = "idle" /\ b \notin Range(started))

\* buffer 1 is rendering and a clear has just removed buffers 2 and 3
C3_Witness ==
    /\ resp = Reply("clear", TRUE, 2)
    /\ cleared = {2, 3}
    /\ worker_item = 1
    /\ stream[1] = "active"
    /\ playback_queue = <<>>

\* C4: an enqueue is never blocked, appends the buffer at the tail and
\* answers the number of pending buffers right after the insertion
C4_EnqueueReportsDepth ==
    /\ [][enqueued' # enqueued =>
            /\ playback_queue' = Append(playback_queue, enqueued')
            /\ resp' = Reply("play-bytes", TRUE, Len(playback_queue'))]_vars
    /\ [](\A bytes \in PostedBodies : ENABLED handle_play_bytes(bytes))

\* a buffer was enqueued behind another pending one while a third is rendering
C4_Witness ==
    /\ resp = Reply("play-bytes", TRUE, 2)
    /\ Len(playback_queue) = 2
    /\ worker = "play"
    /\ stream[worker_item] = "active"

\* the rendering of buffer b has failed: the bytes could not be decoded or
\* the device not opened (the except path), or the stream died mid-playback
RenderFailed(b) == session[b] \in {"except", "raised"} \/ stream[b] = "dead"

\* C5: a failed item does not stall the worker: the worker finishes the item
\* it holds (and is back at the queue)
C5_FailedItemNeverStallsWorker ==
    \A b \in Buffers : (worker_item = b /\ RenderFailed(b)) ~> (worker_item # b)

\* C6: whenever a session ends, the last frame transmitted for it is the
\* all-zero frame and the level and the previous shape weights are zero
C6_MouthClosedAtSessionEnd ==
    [][\A b \in Buffers :
         (session[b] \notin Ended /\ session'[b] \in Ended) =>
            /\ sent'[b] = <<>> \/ Last(sent'[b]) = ZeroShapes
            /\ _envelope' = 0
            /\ _prev_shapes' = ZeroShapes]_vars

\* the frames of the buffer of the session of the callback specification
TotalSamples == Len(body[1].samples)

\* C7: the completion flag is false before the callback in which the cursor
\* reaches N (the first callback when N = 0), true from that callback on,
\* and never false again
C7_CompletionOnFinalChunk ==
    /\ [](playback_done[1] <=> (outdata[1] # <<>> /\ write_pos[1] = TotalSamples))
    /\ [][playback_done[1] => playback_done'[1]]_vars

\* a 3-frame buffer completed by a callback that asked for 2 frames, after a
\* callback that did not complete it
C7_Witness ==
    /\ playback_done[1]
    /\ TotalSamples = 3
    /\ played[1] = <<0, 1, 2>>
    /\ Len(outdata[1]) = 2
    /\ stream[1] = "stopped"

\* C8: the cursor is the number of frames copied so far, never decreases and
\* never exceeds N; each callback copies min(frames, N - cursor) consecutive
\* frames from the cursor and zero-fills the rest; the frames copied are
\* 0, 1, .., cursor - 1, each once, and all N of them at completion
C8_CursorCountsCopiedFrames ==
    /\ [](/\ write_pos[1] <= TotalSamples
          /\ played[1] = [i \in 1..write_pos[1] |-> i - 1]
          /\ playback_done[1] => Len(played[1]) = TotalSamples)
    /\ [][LET frames == Len(outdata'[1])
              n == Min(frames, TotalSamples - write_pos[1])
          IN  /\ frames \in ChunkSizes
              /\ n >= 0
              /\ write_pos'[1] = write_pos[1] + n
              /\ outdata'[1] = SubSeq(body[1].samples, write_pos[1] + 1,
                                      write_pos[1] + n) \o Zeros(frames - n)]_vars

\* the last callback of a 3-frame buffer copied 1 frame and zero-filled 1
C8_Witness ==
    /\ body[1].samples = <<300, 300, 1000>>
    /\ write_pos[1] = 3
    /\ outdata[1] = <<1000, 0>>
    /\ playback_done[1]

\* C9: after each update the level returned and the level stored for the
\* next tick lie in [0, max_open]
C9_LevelWithinMaxOpen ==
    /\ 0 <= _envelope /\ _envelope <= max_open
    /\ 0 <= last_level /\ last_level <= max_open

\* after MaxUpdates updates the level returned is gated to 0 while the level
\* stored and the previous shape weights are still above 0
C9_Witness ==
    /\ updates = MaxUpdates
    /\ last_level = 0
    /\ _envelope > 0
    /\ \E v \in Vowels : _prev_shapes[v] > 0

\* C10 as stated: for attack > 1 - release the ticks to come within 1% of the
\* target are fewer than the ticks the level then takes to fall back to 0
C10_AttackFasterThanRelease ==
    step_phase = "done" => attack_ticks < decay_ticks

\* C10: with the default attack 0.55 and release 0.75 and a target of at
\* least 0.12, the ticks to come within 1% of the target are fewer than the
\* ticks the level then takes to fall back to 0
C10_DefaultStepAttackFaster ==
    (/\ step_phase = "done"
     /\ attack = attack_default
     /\ release = release_default
     /\ EnvelopeTarget(step_rms) >= 12000) => attack_ticks < decay_ticks

\* a full-scale step with the defaults: 6 ticks up, more down
C10_Witness ==
    /\ step_phase = "done"
    /\ attack = attack_default
    /\ release = release_default
    /\ EnvelopeTarget(step_rms) = max_open
    /\ attack_ticks = 6
    /\ decay_ticks > 6

\* C11: whenever an update yields level 0, the frame produced and transmitted
\* for that tick is the all-zero frame and vowel_phase is 0, whatever the
\* previous frame was
C11_GatedUpdateSendsZeroFrame ==
    (updates >= 1 /\ last_level = 0) => (last_frame = ZeroShapes /\ _vowel_phase = 0)

\* C12: fading out from a frame with weight 0.65 on A, the weight of A sent
\* at each of the 8 fade steps is smaller than the one sent before it (the
\* first smaller than 0.65), and the final frame sent is all-zero
C12_FadeStrictlyDecreases ==
    (vmc_thread[1] = "done" /\ last_frame["A"] = max_open) =>
        /\ Len(sent[1]) = FadeSteps + 1
        /\ sent[1][1]["A"] < last_frame["A"]
        /\ \A k \in 2..FadeSteps : sent[1][k]["A"] < sent[1][k - 1]["A"]
        /\ sent[1][FadeSteps + 1] = ZeroShapes

\* the fade from A = 0.65 alone has been sent: the 7th step is still above 0
C12_Witness ==
    /\ vmc_thread[1] = "done"
    /\ last_frame = [v \in Vowels |-> IF v = "A" THEN max_open ELSE 0]
    /\ sent[1][FadeSteps - 1]["A"] > 0
    /\ session[1] = "returned"

\* the frames a coordinator that has completed its fade-out sent in its loop
TickFrames(b) == SubSeq(sent[b], 1, Len(sent[b]) - (FadeSteps + 1))

\* C13: the frames sent for a session that completes naturally end with
\* exactly one all-zero frame: the last frame is all-zero and, when a weight
\* was non-zero as completion was observed, the frame before it is not
C13_ExactlyOneFinalZeroFrame ==
    \A b \in Buffers :
        vmc_thread[b] = "done" =>
            /\ Last(sent[b]) = ZeroShapes
            /\ (TickFrames(b) # <<>> /\ Last(TickFrames(b)) # ZeroShapes)
                  => sent[b][Len(sent[b]) - 1] # ZeroShapes

\* the Apply messages on the wire, and the Apply before position p (0: none)
ApplyPositions == {p \in 1..Len(wire) : wire[p].address = ApplyAddress}
PrevApply(p) ==
    LET before == {q \in ApplyPositions : q < p}
    IN  IF before = {} THEN 0 ELSE CHOOSE q \in before : \A r \in before : r <= q

\* C14: on the wire every Apply is preceded, since the Apply before it, by
\* exactly five Val messages, one per label, all of the frame of that Apply
C14_FiveValsThenApply ==
    \A p \in ApplyPositions :
        LET vals == (PrevApply(p) + 1)..(p - 1)
        IN  /\ Cardinality(vals) = Len(VOWELS)
            /\ \A k \in vals : /\ wire[k].address = ValAddress
                               /\ wire[k].frame = wire[p].frame
            /\ {wire[k].args[1] : k \in vals} = Vowels

\* C15: only the queue worker starts audio output: no output started by a
\* request handler plays while a queue-driven session is rendering
C15_OnlyWorkerStartsOutput ==
    \A b \in Buffers :
        stream[b] = "active" => (play_direct = "idle" /\ test_tones = 0)

\* C16: a failing send is swallowed by the transmitter: no coordinator is
\* ended by it, in its loop or in its fade-out, before it is Closed
C16_SendFailureSwallowed ==
    \A b \in Buffers : vmc_thread[b] \in {"none", "loop", "done"}

\* C17: once play_audio_with_vmc has returned (or raised) for a session, no
\* coordinator of that session is still in its tick loop
C17_NoCoordinatorOutlivesSession ==
    \A b \in Buffers : session[b] \in Ended => vmc_thread[b] # "loop"

C19_GateResetsStoredLevel ==
    (updates >= 1 /\ last_level = 0) => (_envelope = 0 /\ _vowel_phase = 0)

\* C20: at the step that starts a session and at the step that ends it the
\* level, vowel_phase and the five previous shape weights are all zero
C20_EnvelopeStateZeroAtSessionBounds ==
    [][\A b \in Buffers :
         (\/ session[b] = "idle" /\ session'[b] # "idle"
          \/ session[b] \notin Ended /\ session'[b] \in Ended) =>
            /\ _envelope' = 0
            /\ _vowel_phase' = 0
            /\ _prev_shapes' = ZeroShapes]_vars

\* the coordinators alive: vmc threads in their loop (or about to fade)
AliveCoordinators == {b \in Buffers : vmc_thread[b] = "loop"}

\* C21: at any instant at most one coordinator is alive, reading or writing
\* the envelope state
C21_AtMostOneCoordinator == Cardinality(AliveCoordinators) <= 1

\* the amplitude cell, the write cursor and the completion flag of session b
Cells(b) == <<current_rms[b], write_pos[b], playback_done[b]>>

\* C22: the amplitude cell, the cursor and the completion flag are modified
\* by the device callback only: a step of the coordinator, of the worker, of
\* enqueue or of clear leaves them unchanged, and a step that changes them
\* is a callback of an active stream and leaves the envelope state unchanged
C22_CellsWrittenByCallbackOnly ==
    [][\A b \in Buffers :
         /\ (vmcVars' # vmcVars \/ coordVars' # coordVars
               \/ workerVars' # workerVars \/ queueVars' # queueVars)
               => Cells(b)' = Cells(b)
         /\ Cells(b)' # Cells(b) =>
               /\ stream[b] = "active"
               /\ LET r == AudioCallback(body[b].samples, write_pos[b], Len(outdata'[b]))
                  IN  Cells(b)' = <<r.rms, r.write_pos, playback_done[b] \/ r.stop>>
               /\ UNCHANGED <<vmcVars, coordVars, workerVars, queueVars>>]_vars

\* a callback has written the cells and the coordinator has ticked on them
C22_Witness ==
    \E b \in Buffers :
        /\ write_pos[b] = 1 /\ current_rms[b] > 0 /\ ~playback_done[b]
        /\ ticks[b] = 1 /\ _envelope > 0
        /\ playback_queue # <<>>

\* the amplitudes the callbacks of session b can have written so far
WrittenBy(b) ==
    {Rms(SubSeq(body[b].samples, c[1], c[2])) :
        c \in {d \in (1..write_pos[b]) \X (1..write_pos[b]) : d[1] <= d[2]}}

\* C23: the amplitude the coordinator of a session reads is 0 or a value a
\* callback of that session wrote: each tick of session b filters the value
\* of the cell of b, which never holds an amplitude of another session
C23_CoordinatorReadsOwnAmplitude ==
    /\ [](\A b \in Buffers : current_rms[b] \in {0} \cup WrittenBy(b))
    /\ [][\A b \in Buffers :
            ticks'[b] # ticks[b] =>
               _envelope' = EnvelopeFilter(_envelope, EnvelopeTarget(current_rms[b]),
                                           attack, release)]_vars

\* the coordinator of a silent session has ticked while the cell of the
\* session before it still holds the amplitude of its final chunk
C23_Witness ==
    /\ body[1] = Tone /\ body[2] = Quiet
    /\ current_rms[1] > 0 /\ session[1] = "returned"
    /\ ticks[2] = 1 /\ write_pos[2] >= 1
    /\ _envelope = 0

\* C24: a callback with the cursor at the buffer end outputs only silence,
\* sets the amplitude cell to 0, leaves the cursor where it is and the
\* completion flag set, and a second such call changes nothing more; every
\* call that completes playback stops the stream, so no callback follows it
C24_EndCallbackIdempotent ==
    /\ [](write_pos[1] >= TotalSamples =>
            \A frames \in ChunkSizes :
               LET r     == AudioCallback(body[1].samples, write_pos[1], frames)
                   again == AudioCallback(body[1].samples, r.write_pos, frames)
               IN  /\ r.outdata = Zeros(frames)
                   /\ r.rms = 0
                   /\ r.write_pos = write_pos[1]
                   /\ r.copied = <<>>
                   /\ r.stop
                   /\ again = r)
    /\ [][/\ write_pos[1] >= TotalSamples =>
               /\ outdata'[1] = Zeros(Len(outdata'[1]))
               /\ current_rms'[1] = 0
               /\ write_pos'[1] = write_pos[1]
               /\ playback_done'[1]
          /\ playback_done'[1] => stream'[1] = "stopped"]_vars
    /\ [](playback_done[1] => ~ENABLED NextCallback)

\* the first callback of an empty buffer asked for two frames
C24_Witness ==
    /\ body[1].samples = <<>>
    /\ outdata[1] = <<0, 0>>
    /\ current_rms[1] = 0 /\ write_pos[1] = 0
    /\ playback_done[1] /\ stream[1] = "stopped"

\* the samples of every channel of the frames of a chunk
AllChannels(chunk) ==
    [i \in 1..(2 * Len(chunk)) |-> chunk[(i + 1) \div 2][2 - (i % 2)]]

\* C25: after a callback that copied at least one frame, the amplitude cell
\* holds the root-mean-square of all the samples it copied, of every channel
C25_AmplitudeOfAllCopiedSamples ==
    [][write_pos'[1] > write_pos[1] =>
          current_rms'[1] =
             Rms(AllChannels(SubSeq(body[1].samples, write_pos[1] + 1, write_pos'[1])))]_vars

\* C26: the vowel phase is k * vowel_speed / FPS, k the number of updates in
\* a row, up to the last one, whose level reached the speaking threshold:
\* an update at or above the threshold adds one step, a gated update makes it
\* 0, and nothing else, the fade-out included, changes it
C26_PhaseCountsSpeakingUpdates ==
    /\ [](/\ _vowel_phase >= 0
          /\ \E k \in 0..updates : _vowel_phase = k * PhaseStep)
    /\ [][IF updates' # updates
          THEN IF ClampLevel(_envelope') >= SpeakingThreshold
               THEN _vowel_phase' = _vowel_phase + PhaseStep
               ELSE _vowel_phase' = 0
          ELSE _vowel_phase' = _vowel_phase]_vars

\* two speaking updates and then a fade-out: the level and the shapes are
\* zeroed and the phase still stands at two steps
C26_Witness ==
    /\ _vowel_phase = 2 * PhaseStep
    /\ updates = 2
    /\ _envelope = 0 /\ _prev_shapes = ZeroShapes

\* a frame with the five labels A, I, U, E, O, each weight in [0, 1]
FiveWeights(f) ==
    /\ DOMAIN f = {"A", "I", "U", "E", "O"}
    /\ \A v \in DOMAIN f : f[v] >= 0 /\ f[v] <= Unit

\* C27: every frame sent has the five labels with weights in [0, 1]; a weight
\* of an update is previous + (target - previous) * 0.35, made 0 when below
\* 0.005, so it is 0 or at least 0.005
C27_FramesFiveWeightsSnapped ==
    /\ [](FiveWeights(last_frame))
    /\ [][IF updates' # updates
          THEN LET target == IF last_level' >= SpeakingThreshold
                             THEN TargetShapes(last_level', _vowel_phase')
                             ELSE ZeroShapes
               IN  \A v \in Vowels :
                      LET s == _prev_shapes[v]
                                 + RoundDiv((target[v] - _prev_shapes[v]) * 35, 100)
                      IN  /\ last_frame'[v] = (IF s < 500 THEN 0 ELSE s)
                          /\ last_frame'[v] = 0 \/ last_frame'[v] >= 500
          ELSE LET frames == FadeClose(_prev_shapes, _envelope, NoFailure).frames
               IN  \A i \in 1..Len(frames) : FiveWeights(frames[i])]_vars

\* a speaking update whose frame has a weight above the snap and a weight
\* whose target was positive and that was made 0
C27_Witness ==
    \E v \in Vowels, w \in Vowels :
       /\ _envelope > 0 /\ last_level >= SpeakingThreshold
       /\ _prev_shapes = last_frame
       /\ TargetShapes(last_level, _vowel_phase)[v] > 0
       /\ last_frame[v] = 0
       /\ last_frame[w] >= SnapThreshold

\* the buffers the worker has taken and not yet marked done
InFlight == IF worker = "play" THEN {worker_item} ELSE {}

\* C28: an enqueued buffer is pending, taken by the worker or removed by a
\* clear, never two of these and never twice; a cleared buffer is never
\* rendered and a taken one is rendered at most once; task_done is called once
\* per removed buffer, so the unfinished-task count is never negative and is
\* the number of pending plus in-flight buffers
C28_QueueAccounting ==
    /\ Range(playback_queue) \cup Range(started) \cup cleared = 1..enqueued
    /\ Range(playback_queue) \cap Range(started) = {}
    /\ Range(playback_queue) \cap cleared = {}
    /\ Range(started) \cap cleared = {}
    /\ Cardinality(Range(playback_queue)) = Len(playback_queue)
    /\ Cardinality(Range(started)) = Len(started)
    /\ \A b \in cleared : session[b] = "idle"
    /\ InFlight \subseteq Range(started)
    /\ unfinished_tasks >= 0
    /\ unfinished_tasks = Len(playback_queue) + Cardinality(InFlight)
    /\ enqueued - unfinished_tasks
          = Cardinality(cleared) + Len(started) - Cardinality(InFlight)

\* buffer 1 was taken by the worker and its session raised, buffer 2 was
\* removed by a clear, and task_done was called for both
C28_Witness ==
    /\ started = <<1>> /\ session[1] = "raised"
    /\ cleared = {2}
    /\ worker = "get"
    /\ unfinished_tasks = 0

\* C29: site.start() is called at most 5 times; after the failed attempt i
\* (i = 1..4) the server waits 2^(i-1) seconds, 1, 2, 4, 8, and tries again;
\* the first success ends the loop; a failure of the 5th attempt is raised
\* and not retried
C29_BindRetriesWithBackoff ==
    /\ [](/\ bind_attempts <= 5
          /\ Len(sleeps) <= 4
          /\ \A i \in 1..Len(sleeps) : sleeps[i] = <<1, 2, 4, 8>>[i]
          /\ bind = "sleep" => bind_attempts = Len(sleeps) + 1
          /\ bind = "listening" => bind_attempts = Len(sleeps) + 1 /\ clock >= port_busy
          /\ bind = "raised" => bind_attempts = 5 /\ sleeps = <<1, 2, 4, 8>>
          /\ bind \in {"listening", "raised"} => ~ENABLED NextBind)
    /\ [][/\ bind_attempts' # bind_attempts =>
               /\ bind_attempts' = bind_attempts + 1
               /\ bind' = IF clock >= port_busy THEN "listening"
                          ELSE IF bind_attempts' = 5 THEN "raised" ELSE "sleep"
          /\ sleeps' # sleeps =>
               /\ bind = "sleep"
               /\ sleeps' = Append(sleeps, 2 ^ (bind_attempts - 1))
               /\ clock' = clock + 2 ^ (bind_attempts - 1)
               /\ bind' = "start"]_vars

\* the port stayed busy through the four waits: the 5th failure is raised
C29_Witness ==
    /\ bind = "raised"
    /\ bind_attempts = 5
    /\ sleeps = <<1, 2, 4, 8>>
    /\ clock = 15 /\ port_busy = 16

\* C30: with attack and release in [0, 1] an update moves the stored level
\* towards the target and not past it: into [level, target] when the target
\* is above the level, into [target, level] otherwise
C30_NoOvershoot ==
    /\ [](\A rms \in RmsInputs :
            LET target == EnvelopeTarget(rms)
                new    == EnvelopeFilter(_envelope, target, attack, release)
            IN  (attack \in 0..100 /\ release \in 0..100) =>
                   IF target > _envelope
                   THEN _envelope <= new /\ new <= target
                   ELSE target <= new /\ new <= _envelope)
    /\ [][updates' # updates =>
            \E rms \in RmsInputs :
               LET target == EnvelopeTarget(rms)
               IN  /\ _envelope' = EnvelopeFilter(_envelope, target, attack, release)
                   /\ IF target > _envelope
                      THEN _envelope <= _envelope' /\ _envelope' <= target
                      ELSE target <= _envelope' /\ _envelope' <= _envelope]_vars

\* with the default factors: full scale, then silence; the level has risen
\* to 0.3575 and come down a quarter of the way to 0
C30_Witness ==
    /\ attack = 55 /\ release = 75
    /\ updates = 2
    /\ _envelope \in 26812..26813

====
